---- MODULE Spec2Model ----
(***************************************************************************)
(* The active-learning control loops of src/main.py (class-floor selection, *)
(* repeated over trials) and src/bias_test_ll4al.py (plain Top-B selection).*)
(* Neural-network outputs are abstracted to nondeterministic integer       *)
(* scores; index lists, slicing, argsort and the floor walk are modelled   *)
(* as the Python code computes them.                                       *)
(***************************************************************************)
EXTENDS Integers, Sequences, FiniteSets, TLC

\* ---- configuration (`from config import *`), scaled down ------------------
NUM_TRAIN == 5
MaxAddendum == 3
CYCLES == 2

\* range(TRIALS) and range(CLS_CNT)
TrialIds == {0, 1}
TRIALS == Cardinality(TrialIds)
Classes == {0, 1}
CLS_CNT == Cardinality(Classes)

\* values tried for INIT_CNT, MINIMUM_CNT and BATCH, and the per-sample losses
\* a network can report
InitCounts == {1, 2}
Minimums == {0, 1}
Batches == {2}
Scores == {0, 1}

Universe == 0 .. (NUM_TRAIN - 1)

\* the configurations a run can be started with; bias_test_ll4al.py never
\* reads MINIMUM_CNT, so it is pinned there
Configs(v) ==
    {c \in [ADDENDUM : 0 .. MaxAddendum, MINIMUM_CNT : Minimums, INIT_CNT : InitCounts,
             BATCH : Batches] :
        v = "topb" => c.MINIMUM_CNT = 0}

VARIABLES
    variant,        \* "floor" = src/main.py, "topb" = src/bias_test_ll4al.py
    cfg,            \* [ADDENDUM, MINIMUM_CNT, INIT_CNT, BATCH] as imported from config
    targets,        \* dataset labels: index -> class
    trial, cycle, pc,
    labeled_set, unlabeled_set,      \* Python lists, as sequences
    models,         \* [backbone, module]: number of train() calls applied since construction
    optimizers,     \* [backbone, module]: number of train() calls that stepped them
    schedulers,     \* [backbone, module]: number of train() calls that stepped them
    dataloaders,    \* [train]: the index list the training sampler draws from
    batches,        \* lengths of the batches this trial's last train() passed to loss_pred_loss
    fp,             \* number of accuracy lines written to record_<trial>.txt
    pkl,            \* number of data_<cycle>.pkl files written (bias_test_ll4al.py)
    subset, uncertainty, label,      \* parallel arrays produced by the scoring step
    moved,          \* samples appended to labeled_set by this trial's last selection step
    lp_args,        \* arguments of a call of loss_pred_loss under study
    lp_result       \* what that call returned or raised

vars == <<variant, cfg, targets, trial, cycle, pc, labeled_set, unlabeled_set, dataloaders,
          batches, models, optimizers, schedulers, fp, pkl, subset, uncertainty, label, moved,
          lp_args, lp_result>>

\* ---- list helpers -------------------------------------------------------
Range(s) == {s[i] : i \in 1 .. Len(s)}

Min2(a, b) == IF a < b THEN a ELSE b
Max2(a, b) == IF a > b THEN a ELSE b

\* all orderings of a finite set (random.shuffle, list(set(...)))
RECURSIVE Perms(_)
Perms(S) ==
    IF S = {} THEN {<< >>}
    ELSE UNION {{<<x>> \o p : p \in Perms(S \ {x})} : x \in S}

\* Python slice bound: negative counts from the end, then clamp to [0, n]
SliceBound(k, n) == IF k < 0 THEN Max2(n + k, 0) ELSE Min2(k, n)
\* s[:k]
SliceTo(s, k) == SubSeq(s, 1, SliceBound(k, Len(s)))
\* s[k:]
SliceFrom(s, k) == SubSeq(s, SliceBound(k, Len(s)) + 1, Len(s))

\* s[::-1]
Reversed(s) == [i \in 1 .. Len(s) |-> s[Len(s) + 1 - i]]

\* tensor[arg]: gather by an index array (1-based positions here)
Gather(s, arg) == [i \in 1 .. Len(arg) |-> s[arg[i]]]

\* mutant: the ranking is sorted in descending order
ArgSortsDescending(u) ==
    {a \in Perms(1 .. Len(u)) : \A i, j \in 1 .. Len(u) : i < j => u[a[i]] >= u[a[j]]}

\* np.argsort: every ascending ordering of the positions (ties in any order)
ArgSorts(u) ==
    {a \in Perms(1 .. Len(u)) : \A i, j \in 1 .. Len(u) : i < j => u[a[i]] <= u[a[j]]}

\* ---- scoring ------------------------------------------------------------
\* which per-sample loss get_uncertainty concatenates and returns
get_uncertainty(v) == IF v = "floor" THEN "target_loss" ELSE "pred_loss"

\* the scoring arrays are locals of the loop body, dead once the selection step
\* has consumed them; they are cleared there
NoScores == [kind |-> "none", values |-> << >>]

\* mutant: a class is closed one admission early
RECURSIVE FloorWalkOneShort(_, _, _, _, _)
FloorWalkOneShort(ordered_index, ordered_label, idx, cnt_lst, m) ==
    IF idx > Len(ordered_index) THEN << >>
    ELSE IF cnt_lst[ordered_label[idx]] < m - 1
         THEN <<ordered_index[idx]>> \o
              FloorWalkOneShort(ordered_index, ordered_label, idx + 1,
                                [cnt_lst EXCEPT ![ordered_label[idx]] = @ + 1], m)
         ELSE FloorWalkOneShort(ordered_index, ordered_label, idx + 1, cnt_lst, m)

\* ---- class-floor walk (main.py 206-210) ---------------------------------
RECURSIVE FloorWalk(_, _, _, _, _)
FloorWalk(ordered_index, ordered_label, idx, cnt_lst, m) ==
    IF idx > Len(ordered_index) THEN << >>
    ELSE IF cnt_lst[ordered_label[idx]] < m
         THEN <<ordered_index[idx]>> \o
              FloorWalk(ordered_index, ordered_label, idx + 1,
                        [cnt_lst EXCEPT ![ordered_label[idx]] = @ + 1], m)
         ELSE FloorWalk(ordered_index, ordered_label, idx + 1, cnt_lst, m)

\* mutant: the counters start at one
OneCounts == [c \in Classes |-> 1]

\* cnt_lst = [0 for _ in range(CLS_CNT)]
ZeroCounts == [c \in Classes |-> 0]

\* slots reserved for the globally highest-scoring samples
HeadCount(c) == c.ADDENDUM - (c.MINIMUM_CNT * CLS_CNT)

\* labels of the (class-balanced) training data: index -> class
Dataset == [i \in Universe |-> i % CLS_CNT]

\* mutant: the new labels are not removed from the pool
SetDifferenceKeepsAll(unlabeled, labeled) == Range(unlabeled)

\* set(unlabeled_set) - set(labeled_set)
SetDifference(unlabeled, labeled) == Range(unlabeled) \ Range(labeled)

\* mutant: the remainder slice drops one index too many
TopBRemainingShort(ranked, B) == SliceTo(ranked, -B - 1)

\* torch.tensor(subset)[arg][-ADDENDUM:] and [:-ADDENDUM]
TopBSelected(ranked, B) == SliceFrom(ranked, -B)
TopBRemaining(ranked, B) == SliceTo(ranked, -B)

\* for cycle in range(CYCLES): where control goes after loop body number c
NextPc(c) == IF c + 1 < CYCLES THEN "optim" ELSE "trial_end"

\* ---- loss_pred_loss (main.py 43-61, bias_test_ll4al.py 45-63) -------------
\* longest batch handed to loss_pred_loss
MaxBatchLen == 4

\* predicted losses, true losses, margins and reduction modes tried
PredValues == {0, 1, 2}
TargetValues == {0, 1}
Margins == {1, 2}
Reductions == {"mean", "none", "sum"}

\* tensor.flip(0)
Flip(t) == [i \in 1 .. Len(t) |-> t[Len(t) + 1 - i]]

\* elementwise a - b
Minus(a, b) == [i \in 1 .. Len(a) |-> a[i] - b[i]]

\* t[:len(t)//2]
FirstHalf(t) == SubSeq(t, 1, Len(t) \div 2)

\* torch.clamp(x, min=0)
ClampMin0(x) == IF x < 0 THEN 0 ELSE x

\* torch.sign(x)
Sign(x) == IF x > 0 THEN 1 ELSE IF x < 0 THEN -1 ELSE 0

\* mutant: the indicator is taken from the sign test d >= 0
SignIndicatorGeq(d) == IF d >= 0 THEN 1 ELSE -1

\* one = 2 * torch.sign(torch.clamp(target, min=0)) - 1
SignIndicator(d) == 2 * Sign(ClampMin0(d)) - 1

\* torch.sum over a vector
RECURSIVE SumSeq(_)
SumSeq(t) == IF Len(t) = 0 THEN 0 ELSE t[1] + SumSeq(Tail(t))

\* torch.clamp(margin - one * input, min=0), per pair
PairLosses(input, target, margin) ==
    LET din == FirstHalf(Minus(input, Flip(input)))
        dtarget == FirstHalf(Minus(target, Flip(target)))
    IN  [i \in 1 .. Len(din) |-> ClampMin0(margin - SignIndicator(dtarget[i]) * din[i])]

\* the call as a whole; the mean is kept as the fraction num / den, and the
\* unsupported reductions fall through to `return loss` with loss unbound
loss_pred_loss(input, target, margin, reduction) ==
    IF Len(input) % 2 # 0
    THEN [status |-> "AssertionError", values |-> << >>, num |-> 0, den |-> 0]
    ELSE LET per == PairLosses(input, target, margin)
         IN  IF reduction = "mean"
             THEN [status |-> "ok", values |-> << >>, num |-> SumSeq(per), den |-> Len(per)]
             ELSE IF reduction = "none"
             THEN [status |-> "ok", values |-> per, num |-> 0, den |-> 0]
             ELSE [status |-> "UnboundLocalError", values |-> << >>, num |-> 0, den |-> 0]

\* DataLoader(batch_size=b) over n sampled indices, drop_last left False: full
\* batches, then one batch with the n % b indices that remain
BatchLengths(n, b) ==
    [i \in 1 .. ((n + b - 1) \div b) |-> IF i * b <= n THEN b ELSE n - (i - 1) * b]

\* the batches an epoch gets through: all of them, or those up to and
\* including the first one of odd length
UpToFirstOdd(lens) ==
    IF \A i \in 1 .. Len(lens) : lens[i] % 2 = 0 THEN lens
    ELSE SubSeq(lens, 1, CHOOSE i \in 1 .. Len(lens) :
                            /\ lens[i] % 2 # 0
                            /\ \A j \in 1 .. (i - 1) : lens[j] % 2 = 0)

\* no call of loss_pred_loss is under study
NoCall == [status |-> "none"]

\* ---- model construction -------------------------------------------------
FreshModels == [backbone |-> 0, module |-> 0]
FreshOptim == [backbone |-> 0, module |-> 0]

TypeOK ==
    /\ variant \in {"floor", "topb"}
    /\ cfg \in Configs(variant)
    /\ targets \in [Universe -> Classes]
    /\ pc \in {"optim", "train", "test", "score", "select", "trial_end", "done", "aborted"}
    /\ batches \in Seq(1 .. Max2(NUM_TRAIN, 2))
    /\ Len(labeled_set) + Len(unlabeled_set) <= 2 * NUM_TRAIN

\* indices = list(range(NUM_TRAIN)); random.shuffle(indices); split at INIT_CNT;
\* LossNet() / ResNet18() built once, before the cycle loop
Init ==
    /\ variant \in {"floor", "topb"}
    /\ cfg \in Configs(variant)
    /\ targets = Dataset
    /\ trial = 0 /\ cycle = 0 /\ pc = "optim"
    /\ \E indices \in Perms(Universe) :
          /\ labeled_set = SliceTo(indices, cfg.INIT_CNT)
          /\ unlabeled_set = SliceFrom(indices, cfg.INIT_CNT)
    /\ dataloaders = [train |-> labeled_set]
    /\ batches = << >>
    /\ models = FreshModels
    /\ optimizers = FreshOptim
    /\ schedulers = FreshOptim
    /\ fp = 0 /\ pkl = 0
    /\ subset = << >> /\ uncertainty = NoScores /\ label = << >>
    /\ moved = << >>
    /\ lp_args = NoCall /\ lp_result = NoCall

\* mutant: the networks are rebuilt together with the optimizers
NewOptimizersRebuildsModels ==
    /\ pc = "optim"
    /\ models' = FreshModels
    /\ optimizers' = FreshOptim
    /\ schedulers' = FreshOptim
    /\ pc' = "train"
    /\ UNCHANGED <<variant, cfg, targets, trial, cycle, labeled_set, unlabeled_set,
                   dataloaders, fp, pkl, subset, uncertainty, label, moved, batches, lp_args, lp_result>>

\* main.py 172-182 / bias_test_ll4al.py 192-202: criterion, SGD optimizers and
\* MultiStepLR schedulers are constructed over the existing models
NewOptimizers ==
    /\ pc = "optim"
    /\ optimizers' = FreshOptim
    /\ schedulers' = FreshOptim
    /\ pc' = "train"
    /\ UNCHANGED <<variant, cfg, targets, trial, cycle, labeled_set, unlabeled_set,
                   dataloaders, models, fp, pkl, subset, uncertainty, label, moved, batches, lp_args, lp_result>>

\* train(models, ...): every epoch draws the batches of the training loader and
\* passes each to loss_pred_loss, whose first assertion ends the run on a batch
\* of odd length; otherwise EPOCH epochs update the parameters in place
Train ==
    /\ pc = "train"
    /\ \E lens \in {BatchLengths(Len(dataloaders.train), cfg.BATCH)} :
          /\ batches' = UpToFirstOdd(lens)
          /\ IF \E i \in 1 .. Len(lens) : lens[i] % 2 # 0
             THEN /\ pc' = "aborted"
                  /\ UNCHANGED <<models, optimizers, schedulers>>
             ELSE /\ models' = [backbone |-> models.backbone + 1,
                                module |-> models.module + 1]
                  /\ optimizers' = [backbone |-> optimizers.backbone + 1,
                                    module |-> optimizers.module + 1]
                  /\ schedulers' = [backbone |-> schedulers.backbone + 1,
                                    module |-> schedulers.module + 1]
                  /\ pc' = "test"
    /\ UNCHANGED <<variant, cfg, targets, trial, cycle, labeled_set, unlabeled_set,
                   dataloaders, fp, pkl, subset, uncertainty, label, moved, lp_args, lp_result>>

\* test(models, dataloaders, mode='test'); main.py writes the accuracy line
Evaluate ==
    /\ pc = "test"
    /\ fp' = IF variant = "floor" THEN fp + 1 ELSE fp
    /\ pc' = "score"
    /\ UNCHANGED <<variant, cfg, targets, trial, cycle, labeled_set, unlabeled_set,
                   dataloaders, models, optimizers, schedulers, pkl, subset, uncertainty,
                   label, moved, batches, lp_args, lp_result>>

\* main.py 191-196 / bias_test_ll4al.py 210-218: the pool is copied (after an
\* in-place shuffle in bias_test_ll4al.py) and scored in that order
ScorePool ==
    /\ pc = "score"
    /\ \E order \in (IF variant = "topb" THEN Perms(Range(unlabeled_set)) ELSE {unlabeled_set}),
          u \in [1 .. Len(unlabeled_set) -> Scores] :
          /\ unlabeled_set' = order
          /\ subset' = order
          /\ uncertainty' = [kind |-> get_uncertainty(variant), values |-> u]
          /\ label' = [i \in 1 .. Len(order) |-> targets[order[i]]]
    /\ pc' = "select"
    /\ UNCHANGED <<variant, cfg, targets, trial, cycle, labeled_set, dataloaders,
                   models, optimizers, schedulers, fp, pkl, moved, batches, lp_args, lp_result>>

\* main.py 202-210: what one class-floor step appends to labeled_set, given the
\* pool and its labels in descending score order
FloorSelected(ordered_index, ordered_label, c) ==
    LET k == HeadCount(c)
    IN  SliceTo(ordered_index, k) \o
        FloorWalk(SliceFrom(ordered_index, k), SliceFrom(ordered_label, k), 1,
                  ZeroCounts, c.MINIMUM_CNT)

\* main.py 198-211: head slice of the descending ranking, floor walk over the
\* rest, then unlabeled_set = list(set(unlabeled_set) - set(labeled_set))
SelectFloor ==
    /\ variant = "floor"
    /\ \E added \in {FloorSelected(Reversed(Gather(subset, arg)),
                                   Reversed(Gather(label, arg)), cfg) :
                         arg \in ArgSorts(uncertainty.values)} :
            /\ labeled_set' = labeled_set \o added
            /\ moved' = added
            /\ \E remaining \in {SetDifference(unlabeled_set, labeled_set \o added)} :
                  \E rem \in Perms(remaining) : unlabeled_set' = rem
            /\ pkl' = pkl

\* bias_test_ll4al.py 220-235: tail slice of the ascending ranking
SelectTopB ==
    /\ variant = "topb"
    /\ \E ranked \in {Gather(subset, arg) : arg \in ArgSorts(uncertainty.values)} :
        \E selected_samples \in {TopBSelected(ranked, cfg.ADDENDUM)} :
            /\ labeled_set' = labeled_set \o selected_samples
            /\ moved' = selected_samples
            /\ unlabeled_set' = TopBRemaining(ranked, cfg.ADDENDUM)
            /\ pkl' = pkl + 1

\* one selection step, the rebuilt training loader, and the end of the loop
\* body: for cycle in range(CYCLES)
Select ==
    /\ pc = "select"
    /\ (SelectFloor \/ SelectTopB)
    /\ dataloaders' = [train |-> labeled_set']
    /\ cycle' = cycle + 1
    /\ pc' = NextPc(cycle)
    /\ subset' = << >> /\ uncertainty' = NoScores /\ label' = << >>
    /\ UNCHANGED <<variant, cfg, targets, trial, models, optimizers, schedulers, fp, batches, lp_args, lp_result>>

\* main.py 151-169: for trial in range(TRIALS): new record file, new split,
\* new models; bias_test_ll4al.py runs a single trial
EndTrial ==
    /\ pc = "trial_end"
    /\ IF variant = "floor" /\ trial + 1 < TRIALS
       THEN /\ trial' = trial + 1
            /\ cycle' = 0
            /\ pc' = "optim"
            /\ \E indices \in Perms(Universe) :
                  /\ labeled_set' = SliceTo(indices, cfg.INIT_CNT)
                  /\ unlabeled_set' = SliceFrom(indices, cfg.INIT_CNT)
            /\ dataloaders' = [train |-> labeled_set']
            /\ models' = FreshModels
            /\ fp' = 0
            /\ moved' = << >> /\ batches' = << >>
            /\ UNCHANGED <<optimizers, schedulers>>
       ELSE /\ pc' = "done"
            /\ UNCHANGED <<trial, cycle, labeled_set, unlabeled_set, dataloaders, models, fp,
                           optimizers, schedulers, moved, batches>>
    /\ UNCHANGED <<variant, cfg, targets, pkl, subset, uncertainty, label, lp_args, lp_result>>

Next ==
    \/ NewOptimizers
    \/ Train
    \/ Evaluate
    \/ ScorePool
    \/ Select
    \/ EndTrial

Spec == Init /\ [][Next]_vars

\* the script is a sequential program: it keeps executing until it returns
FairSpec == Spec /\ WF_vars(Next)

\* ---- loss_pred_loss on its own -------------------------------------------
\* a batch of predicted and true losses of equal length is about to be passed
\* to loss_pred_loss; the loop state plays no part
LossInit ==
    /\ variant = "floor"
    /\ cfg = [ADDENDUM |-> 0, MINIMUM_CNT |-> 0, INIT_CNT |-> 0, BATCH |-> 0]
    /\ targets = Dataset
    /\ trial = 0 /\ cycle = 0 /\ pc = "loss_pred_loss"
    /\ labeled_set = << >> /\ unlabeled_set = << >>
    /\ dataloaders = [train |-> << >>] /\ batches = << >>
    /\ models = FreshModels /\ optimizers = FreshOptim /\ schedulers = FreshOptim
    /\ fp = 0 /\ pkl = 0
    /\ subset = << >> /\ uncertainty = NoScores /\ label = << >>
    /\ moved = << >>
    /\ \E n \in 0 .. MaxBatchLen :
          \E input \in [1 .. n -> PredValues], target \in [1 .. n -> TargetValues],
             margin \in Margins, reduction \in Reductions :
                lp_args = [status |-> "called", input |-> input, target |-> target,
                           margin |-> margin, reduction |-> reduction]
    /\ lp_result = NoCall

CallLossPredLoss ==
    /\ pc = "loss_pred_loss"
    /\ lp_args.status = "called"
    /\ lp_result = NoCall
    /\ lp_result' = loss_pred_loss(lp_args.input, lp_args.target, lp_args.margin,
                                   lp_args.reduction)
    /\ UNCHANGED <<variant, cfg, targets, trial, cycle, pc, labeled_set, unlabeled_set,
                   dataloaders, batches, models, optimizers, schedulers, fp, pkl, subset,
                   uncertainty, label, moved, lp_args>>

LossNext == CallLossPredLoss

LossSpec == LossInit /\ [][LossNext]_vars

\* ==== properties ========================================================

NoDuplicates(s) == \A i, j \in 1 .. Len(s) : i # j => s[i] # s[j]

\* the score the scoring step reported for pool sample x
ScoreOf(x) == uncertainty.values[CHOOSE i \in 1 .. Len(subset) : subset[i] = x]

\* number of samples of class c in a set of indices
CountClass(S, c) == Cardinality({x \in S : targets[x] = c})

\* a selection step has just completed (the loop body ran to its end)
AfterSelect == pc \in {"optim", "trial_end"} /\ cycle >= 1

\* C1: at every point of a run, in both loops, labeled_set and unlabeled_set
\* are disjoint, labeled_set holds no index twice, their union is
\* range(NUM_TRAIN), and |labeled| + |unlabeled| = NUM_TRAIN.
C1_Partition ==
    /\ Range(labeled_set) \cap Range(unlabeled_set) = {}
    /\ NoDuplicates(labeled_set)
    /\ Range(labeled_set) \cup Range(unlabeled_set) = Universe
    /\ Len(labeled_set) + Len(unlabeled_set) = NUM_TRAIN

\* C1 witness: a cycle boundary of the class-floor loop at which the last
\* selection step moved samples and left some in the pool.
C1_Witness ==
    /\ AfterSelect /\ variant = "floor"
    /\ Len(moved) >= 2 /\ Len(unlabeled_set) >= 1

\* C2: a Top-B selection step with budget B >= 1 on a pool of size P >= B
\* adds exactly B indices to labeled_set, leaves P - B in unlabeled_set, and
\* the two lists are disjoint afterwards.
C2_TopBSizes ==
    [][(pc = "select" /\ variant = "topb" /\ cfg.ADDENDUM >= 1
         /\ Len(unlabeled_set) >= cfg.ADDENDUM)
        => /\ Len(labeled_set') = Len(labeled_set) + cfg.ADDENDUM
           /\ Len(unlabeled_set') = Len(unlabeled_set) - cfg.ADDENDUM
           /\ Range(labeled_set') \cap Range(unlabeled_set') = {}]_vars

\* C2 witness: a Top-B step has moved a full budget of B >= 2 samples out of a
\* pool that still holds samples.
C2_Witness ==
    /\ AfterSelect /\ variant = "topb"
    /\ cfg.ADDENDUM >= 2 /\ Len(moved) = cfg.ADDENDUM /\ Len(unlabeled_set) >= 1

\* C3: whatever the order the pool is presented in, a Top-B step with
\* 1 <= B <= P moves B distinct pool samples, each scoring at least as high as
\* every sample left behind; in the class-floor loop the first B - m*C moved
\* samples (the reserved slots) score at least as high as every other pool sample.
C3_TopBContent ==
    [][(pc = "select")
        => /\ (variant = "topb" /\ cfg.ADDENDUM >= 1 /\ Len(subset) >= cfg.ADDENDUM)
                => /\ Len(moved') = cfg.ADDENDUM
                   /\ NoDuplicates(moved')
                   /\ Range(moved') \subseteq Range(subset)
                   /\ \A x \in Range(moved'), y \in Range(subset) \ Range(moved') :
                         ScoreOf(x) >= ScoreOf(y)
           /\ (variant = "floor" /\ HeadCount(cfg) >= 0 /\ Len(subset) >= HeadCount(cfg))
                => LET head == SubSeq(moved', 1, HeadCount(cfg))
                   IN  /\ Len(moved') >= HeadCount(cfg)
                       /\ NoDuplicates(head)
                       /\ Range(head) \subseteq Range(subset)
                       /\ \A x \in Range(head), y \in Range(subset) \ Range(head) :
                             ScoreOf(x) >= ScoreOf(y)]_vars

\* C3 witness: a Top-B step has moved one sample out of a pool of three and
\* left two behind.
C3_Witness ==
    /\ AfterSelect /\ variant = "topb" /\ cycle = 1
    /\ cfg.ADDENDUM = 1 /\ Len(moved) = 1 /\ Len(unlabeled_set) = 2

\* C4: in every class-floor selection step every class c receives at least
\* min(MINIMUM_CNT, number of pool samples of class c) newly labeled samples.
C4_ClassFloor ==
    [][(pc = "select" /\ variant = "floor")
        => \A c \in Classes :
              CountClass(Range(moved'), c)
                 >= Min2(cfg.MINIMUM_CNT, CountClass(Range(unlabeled_set), c))]_vars

\* C4 witness: with no reserved slots (B = m*C) the floor walk alone has given
\* every class a new label.
C4_Witness ==
    /\ AfterSelect /\ variant = "floor"
    /\ cfg.MINIMUM_CNT = 1 /\ HeadCount(cfg) = 0
    /\ \A c \in Classes : CountClass(Range(moved), c) >= 1

\* the pool samples ranked below the reserved slots, given the list the step moved
TailOf(mv) == Range(subset) \ Range(SubSeq(mv, 1, HeadCount(cfg)))

\* samples the floor walk admitted, given the list the step moved
WalkOf(mv) == Range(SubSeq(mv, HeadCount(cfg) + 1, Len(mv)))

\* sum over classes of min(m, number of class-c samples in S)
RECURSIVE FloorQuota(_, _, _)
FloorQuota(Cs, S, m) ==
    IF Cs = {} THEN 0
    ELSE LET c == CHOOSE x \in Cs : TRUE
         IN  Min2(m, CountClass(S, c)) + FloorQuota(Cs \ {c}, S, m)

\* a class-floor step on a pool of at least B samples with B > m*C
FloorStepInBudget ==
    /\ pc = "select" /\ variant = "floor"
    /\ cfg.ADDENDUM > cfg.MINIMUM_CNT * CLS_CNT
    /\ Len(unlabeled_set) >= cfg.ADDENDUM

\* C5 as stated: every class-floor step with P >= B > m*C moves exactly B
\* samples, whatever the class composition of the pool.
C5_Original == [][FloorStepInBudget => Len(moved') = cfg.ADDENDUM]_vars

\* C5 amended: such a step moves the B - m*C top-ranked samples plus, for each
\* class, min(m, number of samples of that class ranked below them): at most
\* B, and exactly B only when every class has m samples below the reserved slots.
C5_Amended ==
    [][FloorStepInBudget
        => /\ Len(moved') = HeadCount(cfg) + FloorQuota(Classes, TailOf(moved'), cfg.MINIMUM_CNT)
           /\ Len(moved') <= cfg.ADDENDUM
           /\ (Len(moved') = cfg.ADDENDUM
                 <=> \A c \in Classes : CountClass(TailOf(moved'), c) >= cfg.MINIMUM_CNT)]_vars

\* C5 witness: a step with B = 3, m = 1 on a pool of three has moved only two.
C5_Witness ==
    /\ AfterSelect /\ variant = "floor" /\ cycle = 1
    /\ cfg.ADDENDUM = 3 /\ cfg.MINIMUM_CNT = 1 /\ cfg.INIT_CNT = 2
    /\ Len(moved) = 2

\* a class-floor step whose reserved slots exist and fit in the pool
FloorStepWithHead ==
    /\ pc = "select" /\ variant = "floor"
    /\ cfg.MINIMUM_CNT >= 1
    /\ HeadCount(cfg) >= 0 /\ Len(unlabeled_set) >= HeadCount(cfg)

\* C6 as stated: a class that already has m samples among the B - m*C
\* top-ranked picks gets no further sample from the floor walk.
C6_Original ==
    [][FloorStepWithHead
        => \A c \in Classes :
              CountClass(Range(SubSeq(moved', 1, HeadCount(cfg))), c) >= cfg.MINIMUM_CNT
                 => CountClass(WalkOf(moved'), c) = 0]_vars

\* C6 amended: the floor walk counts only its own admissions: for every class
\* it admits exactly min(m, samples of that class ranked below the reserved
\* slots), whether or not the top-ranked picks already hold that class.
C6_Amended ==
    [][FloorStepWithHead
        => \A c \in Classes :
              CountClass(WalkOf(moved'), c)
                 = Min2(cfg.MINIMUM_CNT, CountClass(TailOf(moved'), c))]_vars

\* C6 witness: the single reserved slot went to a class and the floor walk
\* admitted another sample of that same class.
C6_Witness ==
    /\ AfterSelect /\ variant = "floor"
    /\ cfg.MINIMUM_CNT = 1 /\ HeadCount(cfg) = 1 /\ Len(moved) >= 2
    /\ \E i \in 2 .. Len(moved) : targets[moved[i]] = targets[moved[1]]

C8_ReachesDone ==
    /\ pc \in {"optim", "train"} => Len(unlabeled_set) > 0
    /\ pc # "aborted"

\* budget <= 0, or per-class minimum times class count above the budget
Malformed(c) == c.ADDENDUM <= 0 \/ c.MINIMUM_CNT * CLS_CNT > c.ADDENDUM

\* C9: under a malformed budget/quota configuration the run aborts before a
\* cycle is run through, and no selection step ever moves a sample.
C9_FailFast == Malformed(cfg) => (cycle = 0 /\ moved = << >>)

\* C10: whenever a ranking is about to drive a selection step, the scores
\* ranked are the auxiliary module's predicted losses, never the true losses.
C10_ProxyOnly == pc = "select" => uncertainty.kind = "pred_loss"

\* the call under study returned normally
LossReturned == lp_result.status = "ok"

\* the pairing and the margin of the call under study
PairCount == Len(lp_args.input) \div 2
PairedWith(i) == Len(lp_args.input) + 1 - i
DeltaPred(i) == lp_args.input[i] - lp_args.input[PairedWith(i)]
DeltaTarget(i) == lp_args.target[i] - lp_args.target[PairedWith(i)]
Hinge(x) == IF x > 0 THEN x ELSE 0

\* sum over pairs 1..n of the hinge loss under a given sign rule
RECURSIVE HingeSum(_, _)
HingeSum(n, sgn) ==
    IF n = 0 THEN 0
    ELSE Hinge(lp_args.margin - sgn[n] * DeltaPred(n)) + HingeSum(n - 1, sgn)

\* the sign rule of the claim, and the one the code computes
SignGeq == [i \in 1 .. PairCount |-> IF DeltaTarget(i) >= 0 THEN 1 ELSE -1]
SignGt == [i \in 1 .. PairCount |-> IF DeltaTarget(i) > 0 THEN 1 ELSE -1]

\* what a returned call must have produced under a given sign rule
LossMatches(sgn) ==
    /\ lp_args.reduction = "none"
         => /\ Len(lp_result.values) = PairCount
            /\ \A i \in 1 .. PairCount :
                  lp_result.values[i] = Hinge(lp_args.margin - sgn[i] * DeltaPred(i))
    /\ lp_args.reduction = "mean"
         => /\ lp_result.num = HingeSum(PairCount, sgn)
            /\ lp_result.den = PairCount

\* C11 as stated: sample i is paired with sample N-1-i, the sign is +1 when
\* target[i] - target[N-1-i] >= 0 (equality included) and -1 otherwise, the
\* pair loss is max(0, margin - s * delta_predicted), and 'mean' is the sum
\* over the N/2 pairs divided by N/2.
C11_Original == LossReturned => LossMatches(SignGeq)

\* C11 amended: the same pairing, hinge and divisor N/2, but the sign is +1
\* only when target[i] - target[N-1-i] > 0; for equal targets it is -1.
C11_Amended == LossReturned => LossMatches(SignGt)

\* C11 witness: a 'mean' call over two pairs, one of them with equal targets
\* and a positive predicted difference, has returned a non-zero loss.
C11_Witness ==
    /\ LossReturned /\ lp_args.reduction = "mean" /\ PairCount = 2
    /\ DeltaTarget(1) = 0 /\ DeltaPred(1) > 0
    /\ DeltaTarget(2) > 0
    /\ lp_result.num > 0

\* C12: when BATCH is even, every batch that reaches loss_pred_loss has even
\* length, the last partial batch included, and no run is aborted by the
\* 'batch size is not even' assertion.
C12_EvenBatches ==
    cfg.BATCH % 2 = 0 => /\ \A i \in 1 .. Len(batches) : batches[i] % 2 = 0
                         /\ pc # "aborted"

====
